---- MODULE Spec2Model ----
(***************************************************************************)
(* The edge worker of igun89/gen-v (src/unnamed/part_000): the sliding     *)
(* window rate limiter and the TTL cache, both kept in one key-value       *)
(* store (env.RATE_LIMIT_KV), the retrieval of the three remote documents  *)
(* and the validation of one access request.                               *)
(*                                                                         *)
(* Time is the wall clock in epoch milliseconds (Date.now()).  A handler   *)
(* suspends at every await; each action below is the code that runs from   *)
(* one await to the next, the store's reply included.                      *)
(***************************************************************************)
EXTENDS Integers, Sequences, FiniteSets, TLC

\* ------------------------------------------------------------------ bounds
MaxConc == 2           \* handler invocations in flight at once
MaxReqs == 3           \* requests handled in one behaviour of the rate limiter
RaceReqs == 4          \* requests handled in one behaviour of the write race
MaxFaults == 1         \* store calls that fail in one behaviour
MaxRateTicks == 2      \* one-second clock ticks in one behaviour of the rate limiter
MaxCacheTicks == 3     \* clock ticks after the start and after an idle period (cache)
MaxIdles == 1          \* long idle periods in one behaviour
TickMs == 500          \* one clock tick of the cache, in milliseconds
StartMs == 7000        \* Date.now() when the behaviour starts
MaxValidations == 1    \* requests handled in one behaviour of the validation
MaxRevalidations == 2  \* requests handled in one behaviour over a warm cache
MaxValidateTicks == 1  \* one-second clock ticks in one behaviour over a warm cache
MaxStoreReqs == 1      \* rate limiter calls in one behaviour of the two stores
MaxWorkerReqs == 2     \* requests handled in one behaviour of the worker
MaxStaleTicks == 2     \* one-second clock ticks in one behaviour of the changed document

\* the environment values explored
CapValues == {1, 2}        \* RATE_LIMIT_MAX_REQUESTS
WindowValues == {1, 2}     \* RATE_LIMIT_WINDOW, seconds
TtlValues == {1, 2}        \* CACHE_TTL, seconds

\* ------------------------------------------------------- program constants
MsPerSecond == 1000
KvBufferSeconds == 60

IdleMs == KvBufferSeconds * MsPerSecond

\* request headers: CF-Connecting-IP and X-Forwarded-For, "" when absent
CfHeaders == {"", "ip1"}
XffHeaders == {"", "ip1"}
Clients == {"ip1", "unknown"}
CacheNames == {"blacklist", "whitelist_set"}
DocNames == {"blacklist", "whitelist_set", "redirect_urls"}
Payloads == {<<>>, <<"a">>, <<"b", "a">>}

VARIABLES
    maxRequests,     \* parseInt(env.RATE_LIMIT_MAX_REQUESTS || '10')
    windowSeconds,   \* parseInt(env.RATE_LIMIT_WINDOW || '60')
    cacheTtl,        \* parseInt(env.CACHE_TTL || '300')
    degree,          \* invocations one client may have in flight at once
    clock,           \* Date.now(), epoch milliseconds
    kv,              \* env.RATE_LIMIT_KV: key -> stored text and expiry
    hs,              \* the handler invocations in flight, one per slot
    log,             \* history: what each client's finished checkRateLimit calls returned
    faults,          \* history: store calls that failed
    cacheRet,        \* history: the last cache operation and what it returned
    lastPut,         \* history: the payload last stored under each cache name
    vs,              \* the handleValidation invocation: its request, position and response
    origin,          \* history: the remote entries behind each cached document
    writer,          \* history: the subsystems that have written each key
    apiToken,        \* env.GITHUB_API_TOKEN, Undefined when not configured
    remote,          \* the allow-list document in the repository, and its last change
    rt               \* the fetch invocation: its request, position and response

vars == <<maxRequests, windowSeconds, cacheTtl, degree, clock, kv, hs, log,
          faults, cacheRet, lastPut, vs, origin, writer, apiToken, remote, rt>>

Slots == 1..MaxConc

\* ------------------------------------------------------------------- JSON
\* A JSON text is a sequence of tokens: punctuation, strings and numbers.
Tok(k, s, n) == [k |-> k, s |-> s, n |-> n]
P(s) == Tok("p", s, 0)
S(s) == Tok("s", s, 0)
N(n) == Tok("n", "", n)

RECURSIVE JoinComma(_)
JoinComma(toks) ==
    IF Len(toks) <= 1 THEN toks
    ELSE <<toks[1], P(",")>> \o JoinComma(Tail(toks))

JsonArray(toks) == <<P("[")>> \o JoinComma(toks) \o <<P("]")>>

\* JSON.stringify({ requests })
StringifyRate(requests) ==
    <<P("{"), S("requests"), P(":")>>
        \o JsonArray([i \in 1..Len(requests) |-> N(requests[i])])
        \o <<P("}")>>

\* JSON.stringify({ data, timestamp })
StringifyCache(data, timestamp) ==
    <<P("{"), S("data"), P(":")>>
        \o JsonArray([i \in 1..Len(data) |-> S(data[i])])
        \o <<P(","), S("timestamp"), P(":"), N(timestamp), P("}")>>

\* the position of the value of member `key` in an object text, 0 when absent
MemberAt(text, key) ==
    LET hits == {i \in 1..(Len(text) - 2) :
                    /\ text[i] = S(key)
                    /\ text[i + 1] = P(":")
                    /\ (text[i - 1] = P("{") \/ text[i - 1] = P(","))
                    /\ \A j \in 1..(i - 1) :
                          text[j] = P("[") =>
                              \E c \in (j + 1)..(i - 1) : text[c] = P("]")}
    IN IF hits = {} THEN 0 ELSE 2 + CHOOSE i \in hits : \A j \in hits : i <= j

\* the elements of the array that opens at position `at`
ArrayAt(text, at) ==
    LET close == CHOOSE c \in (at + 1)..Len(text) :
                    /\ text[c] = P("]")
                    /\ \A j \in (at + 1)..(c - 1) : text[j] # P("]")
    IN SelectSeq(SubSeq(text, at + 1, close - 1), LAMBDA t : t # P(","))

\* JSON.parse of a rate record: currentData.requests
ParseRate(text) ==
    LET a == ArrayAt(text, MemberAt(text, "requests"))
    IN [i \in 1..Len(a) |-> a[i].n]

\* JSON.parse of a cache entry: cached.data and cached.timestamp
ParseCache(text) ==
    LET a == ArrayAt(text, MemberAt(text, "data"))
    IN [data |-> [i \in 1..Len(a) |-> a[i].s],
        timestamp |-> text[MemberAt(text, "timestamp")].n]

\* ----------------------------------------------------------- the KV store
\* mutant: every client is counted under one key
RateKeyShared(clientIP) == <<"rate_limit:", "ip1">>

\* const key = `rate_limit:${clientIP}`
RateKey(clientIP) == <<"rate_limit:", clientIP>>
CacheKey(name) == <<"cache:", name>>
Keys == {RateKey(c) : c \in Clients} \cup {CacheKey(n) : n \in DocNames}

NoEntry == [present |-> FALSE, text |-> <<>>, expireAt |-> 0]

\* KV.get(key): null once the entry's expirationTtl has run out
KvLive(key) == kv[key].present /\ clock < kv[key].expireAt

\* KV.put(key, text, { expirationTtl })
KvPut(key, text, expirationTtl) ==
    [kv EXCEPT ![key] = [present |-> TRUE, text |-> text,
                         expireAt |-> clock + expirationTtl * MsPerSecond]]

\* the subsystem `who` has written `key`
Wrote(key, who) == [writer EXCEPT ![key] = @ \cup {who}]

\* ----------------------------------------------------------- rate limiter
\* request.headers.get('CF-Connecting-IP') || get('X-Forwarded-For') || 'unknown'
ClientIP(cf, xff) == IF cf # "" THEN cf ELSE IF xff # "" THEN xff ELSE "unknown"

\* Math.floor(Date.now() / 1000)
NowSeconds == clock \div MsPerSecond

\* mutant: the filter keeps a timestamp that is exactly windowSeconds old
InWindowInclusive(requests, windowStart) ==
    SelectSeq(requests, LAMBDA timestamp : timestamp >= windowStart)

\* currentData.requests.filter(timestamp => timestamp > windowStart)
InWindow(requests, windowStart) ==
    SelectSeq(requests, LAMBDA timestamp : timestamp > windowStart)

\* mutant: the limit test lets one request too many through
OverLimitStrict(requests) == Len(requests) > maxRequests

\* mutant: the limit is never tested
OverLimitNever(requests) == FALSE

\* requests.length >= maxRequests
OverLimit(requests) == Len(requests) >= maxRequests

\* mutant: the record is written without the one-minute buffer
RateExpirationNoBuffer == windowSeconds

\* mutant: the record lives half the window
RateExpirationHalfWindow == windowSeconds \div 2

\* expirationTtl: windowSeconds + 60
RateExpirationTtl == windowSeconds + KvBufferSeconds

\* mutant: the catch fails closed
RateLimitCatchClosed == [allowed |-> FALSE, remaining |-> 0]

\* the catch of checkRateLimit: { allowed: true, remaining: 1 }
RateLimitCatch == [allowed |-> TRUE, remaining |-> 1]

\* mutant: what remains is counted before the current request
RemainingBeforePush(requests) == maxRequests - (Len(requests) - 1)

\* line 86: remaining: maxRequests - requests.length, after the push
Remaining(requests) == maxRequests - Len(requests)

IdleSlot == [pc |-> "idle", client |-> "", now |-> 0, read |-> <<>>, requests |-> <<>>]

InFlight(c) == {s \in Slots : hs[s].pc # "idle" /\ hs[s].client = c}
RECURSIVE Total(_, _)
Total(f, D) == IF D = {} THEN 0
               ELSE LET x == CHOOSE y \in D : TRUE IN f[x] + Total(f, D \ {x})

Started == Total([c \in Clients |-> Len(log[c])], Clients)
           + Cardinality({s \in Slots : hs[s].pc # "idle"})

\* a store call answers, or throws if ~ok
StoreCall(ok) ==
    /\ ok \/ faults < MaxFaults
    /\ faults' = IF ok THEN faults ELSE faults + 1

Returned(s, result, err) ==
    /\ log' = [log EXCEPT ![hs[s].client] =
                   Append(@, [now |-> hs[s].now, allowed |-> result.allowed,
                              remaining |-> result.remaining, err |-> err])]
    /\ hs' = [hs EXCEPT ![s] = IdleSlot]

\* lines 56-69: the client key and the clock are read, then KV.get is awaited
RLStart(s, cf, xff) ==
    /\ hs[s].pc = "idle"
    /\ \A t \in 1..(s - 1) : hs[t].pc # "idle"
    /\ Cardinality(InFlight(ClientIP(cf, xff))) < degree
    /\ hs' = [hs EXCEPT ![s] = [pc |-> "get", client |-> ClientIP(cf, xff),
                                now |-> NowSeconds, read |-> <<>>,
                                requests |-> <<>>]]
    /\ UNCHANGED <<maxRequests, apiToken, remote, rt, windowSeconds, cacheTtl, degree, clock, kv, log,
                   faults, cacheRet, lastPut, vs, origin, writer>>

\* mutant: the pruned list is written back before the limit is tested
RLGetPersistsFirst(s, ok) ==
    /\ hs[s].pc = "get"
    /\ StoreCall(ok)
    /\ LET key == RateKey(hs[s].client)
           windowStart == hs[s].now - windowSeconds
           stored == IF KvLive(key) THEN ParseRate(kv[key].text) ELSE <<>>
           requests == InWindow(stored, windowStart)
       IN  IF ~ok THEN Returned(s, RateLimitCatch, TRUE) /\ kv' = kv
           ELSE IF OverLimit(requests)
                THEN /\ Returned(s, [allowed |-> FALSE, remaining |-> 0], FALSE)
                     /\ kv' = KvPut(key, StringifyRate(requests), RateExpirationTtl)
                ELSE /\ hs' = [hs EXCEPT ![s].pc = "put",
                                         ![s].read = stored,
                                         ![s].requests = Append(requests, hs[s].now)]
                     /\ UNCHANGED <<log, kv>>
    /\ UNCHANGED <<maxRequests, apiToken, remote, rt, windowSeconds, cacheTtl, degree, clock, cacheRet, lastPut,
                   vs, origin, writer>>

\* lines 69-80: KV.get answers (or throws); filter, decide, push, await KV.put
RLGet(s, ok) ==
    /\ hs[s].pc = "get"
    /\ StoreCall(ok)
    /\ LET key == RateKey(hs[s].client)
           windowStart == hs[s].now - windowSeconds
           stored == IF KvLive(key) THEN ParseRate(kv[key].text) ELSE <<>>
           requests == InWindow(stored, windowStart)
       IN  IF ~ok THEN Returned(s, RateLimitCatch, TRUE)
           ELSE IF OverLimit(requests)
                THEN Returned(s, [allowed |-> FALSE, remaining |-> 0], FALSE)
                ELSE /\ hs' = [hs EXCEPT ![s].pc = "put",
                                         ![s].read = stored,
                                         ![s].requests = Append(requests, hs[s].now)]
                     /\ UNCHANGED log
    /\ UNCHANGED <<maxRequests, apiToken, remote, rt, windowSeconds, cacheTtl, degree, clock, kv,
                   cacheRet, lastPut, vs, origin, writer>>

\* lines 80-87: KV.put answers (or throws); return allowed with what remains
RLPut(s, ok) ==
    /\ hs[s].pc = "put"
    /\ StoreCall(ok)
    /\ IF ok
       THEN /\ kv' = KvPut(RateKey(hs[s].client), StringifyRate(hs[s].requests),
                           RateExpirationTtl)
            /\ Returned(s, [allowed |-> TRUE,
                            remaining |-> Remaining(hs[s].requests)], FALSE)
       ELSE /\ kv' = kv
            /\ Returned(s, RateLimitCatch, TRUE)
    /\ writer' = IF ok THEN Wrote(RateKey(hs[s].client), "rate limiter") ELSE writer
    /\ UNCHANGED <<maxRequests, apiToken, remote, rt, windowSeconds, cacheTtl, degree, clock,
                   cacheRet, lastPut, vs, origin>>

\* ------------------------------------------------------------------ cache
\* mutant: the entry is written with the buffer subtracted instead of added
CacheExpirationShort == cacheTtl - 1

\* expirationTtl: ttl + 60
CacheExpirationTtl == cacheTtl + KvBufferSeconds

\* mutant: an entry whose age equals the TTL is still served
FreshInclusive(timestamp) == clock - timestamp <= cacheTtl * MsPerSecond

\* now - cached.timestamp < ttl * 1000
Fresh(timestamp) == clock - timestamp < cacheTtl * MsPerSecond

Miss == [found |-> FALSE, data |-> <<>>, raised |-> FALSE]
Hit(data) == [found |-> TRUE, data |-> data, raised |-> FALSE]
Thrown == [found |-> FALSE, data |-> <<>>, raised |-> TRUE]

\* the try block of getCachedData: what it returns, or that it threw
GetCachedTry(key, ok) ==
    IF ~ok THEN Thrown
    ELSE IF ~KvLive(CacheKey(key)) THEN Miss
    ELSE LET cached == ParseCache(kv[CacheKey(key)].text)
         IN  IF cached.timestamp # 0 /\ Fresh(cached.timestamp)
             THEN Hit(cached.data)
             ELSE Miss

\* mutant: getCachedData never finds anything
GetCachedAlwaysMiss(key, ok) == Miss

\* mutant: getCachedData without its catch
GetCachedNoCatch(key, ok) == GetCachedTry(key, ok)

\* what getCachedData(key, env) returns: the catch turns a throw into null
GetCachedResult(key, ok) ==
    LET r == GetCachedTry(key, ok) IN IF r.raised THEN Miss ELSE r

\* mutant: the entry is stamped in seconds, not milliseconds
SetCachedTrySeconds(key, data, timestamp, ok) ==
    IF ok
    THEN [kv |-> KvPut(CacheKey(key), StringifyCache(data, timestamp \div MsPerSecond),
                       CacheExpirationTtl),
          raised |-> FALSE]
    ELSE [kv |-> kv, raised |-> TRUE]

\* the try block of setCachedData: the store after it, or that it threw.
\* timestamp: Date.now() as line 126 read it when the call was made; the
\* entry is in the store when KV.put answers
SetCachedTry(key, data, timestamp, ok) ==
    IF ok
    THEN [kv |-> KvPut(CacheKey(key), StringifyCache(data, timestamp), CacheExpirationTtl),
          raised |-> FALSE]
    ELSE [kv |-> kv, raised |-> TRUE]

\* what setCachedData(key, data, env) does: the catch swallows a throw
SetCachedResult(key, data, timestamp, ok) ==
    [SetCachedTry(key, data, timestamp, ok) EXCEPT !.raised = FALSE]

\* the age of the entry stored under `key`, -1 when the store holds none
StoredAge(key) ==
    IF KvLive(CacheKey(key))
    THEN clock - ParseCache(kv[CacheKey(key)].text).timestamp
    ELSE -1

NoCacheOp == [op |-> "none", name |-> "", data |-> <<>>, found |-> FALSE,
              raised |-> FALSE, err |-> FALSE, at |-> 0]
NoPut == [done |-> FALSE, data |-> <<>>, at |-> 0]

\* lines 96-116
getCachedData(key, ok) ==
    /\ LET r == GetCachedResult(key, ok)
       IN  cacheRet' = [op |-> "get", name |-> key, data |-> r.data,
                        found |-> r.found, raised |-> r.raised, err |-> ~ok,
                        at |-> clock]
    /\ UNCHANGED <<maxRequests, apiToken, remote, rt, windowSeconds, cacheTtl, degree, clock, kv, hs, log,
                   faults, lastPut, vs, origin, writer>>

\* lines 119-135
setCachedData(key, data, ok) ==
    /\ LET r == SetCachedResult(key, data, clock, ok)
       IN  /\ kv' = r.kv
           /\ cacheRet' = [op |-> "set", name |-> key, data |-> data,
                           found |-> FALSE, raised |-> r.raised, err |-> ~ok,
                           at |-> clock]
    /\ lastPut' = IF ok THEN [lastPut EXCEPT ![key] = [done |-> TRUE, data |-> data,
                                                       at |-> clock]]
                  ELSE lastPut
    /\ writer' = IF ok THEN Wrote(CacheKey(key), "cache layer") ELSE writer
    /\ UNCHANGED <<maxRequests, apiToken, remote, rt, windowSeconds, cacheTtl, degree, clock, hs, log,
                   faults, vs, origin>>

\* ---------------------------------------------------------------- strings
\* The strings that occur, each spelled as its characters; the string
\* operations of the code work on the characters.
Spell ==
    [s \in {"", " ", "x", "ab", "a@b", "a@b.c", "a@B.c", "A@b.c",
            "z@b.c", "ip1", "unknown", "tok", "http", "http://u/",
            " http://u/", "ftp://u/"} |->
        CASE s = "" -> <<>>
          [] s = " " -> <<" ">>
          [] s = "x" -> <<"x">>
          [] s = "ab" -> <<"a", "b">>
          [] s = "a@b" -> <<"a", "@", "b">>
          [] s = "a@b.c" -> <<"a", "@", "b", ".", "c">>
          [] s = "a@B.c" -> <<"a", "@", "B", ".", "c">>
          [] s = "A@b.c" -> <<"A", "@", "b", ".", "c">>
          [] s = "z@b.c" -> <<"z", "@", "b", ".", "c">>
          [] s = "ip1" -> <<"i", "p", "1">>
          [] s = "unknown" -> <<"u", "n", "k", "n", "o", "w", "n">>
          [] s = "tok" -> <<"t", "o", "k">>
          [] s = "http" -> <<"h", "t", "t", "p">>
          [] s = "http://u/" -> <<"h", "t", "t", "p", ":", "/", "/", "u", "/">>
          [] s = " http://u/" -> <<" ", "h", "t", "t", "p", ":", "/", "/", "u", "/">>
          [] s = "ftp://u/" -> <<"f", "t", "p", ":", "/", "/", "u", "/">>]

\* the string with the given characters
Str(chars) == CHOOSE s \in DOMAIN Spell : Spell[s] = chars

\* a field the request body does not carry (undefined)
Undefined == "undefined"

\* JavaScript truthiness of a string-valued field: undefined and '' are falsy
\* the values of env.GITHUB_API_TOKEN
ApiTokens == {Undefined, "secret"}

Truthy(v) == v # Undefined /\ v # ""

IsSpace(c) == c \in {" ", "\t", "\n"}

RECURSIVE TrimStart(_)
TrimStart(chars) ==
    IF chars # <<>> /\ IsSpace(Head(chars)) THEN TrimStart(Tail(chars)) ELSE chars

RECURSIVE TrimEnd(_)
TrimEnd(chars) ==
    IF chars # <<>> /\ IsSpace(chars[Len(chars)])
    THEN TrimEnd(SubSeq(chars, 1, Len(chars) - 1))
    ELSE chars

\* String.prototype.trim
Trim(s) == Str(TrimEnd(TrimStart(Spell[s])))

LowerChar(c) ==
    CASE c = "A" -> "a"
      [] c = "B" -> "b"
      [] OTHER -> c

\* String.prototype.toLowerCase
ToLowerCase(s) == Str([i \in 1..Len(Spell[s]) |-> LowerChar(Spell[s][i])])

\* String.prototype.includes, for one character
IncludesChar(s, c) == \E i \in 1..Len(Spell[s]) : Spell[s][i] = c

\* String.prototype.startsWith
StartsWith(s, prefix) ==
    /\ Len(Spell[s]) >= Len(Spell[prefix])
    /\ SubSeq(Spell[s], 1, Len(Spell[prefix])) = Spell[prefix]

\* /^[^\s@]+@[^\s@]+\.[^\s@]+$/.test(email)
EmailRegexTest(email) ==
    LET c == Spell[email]
        plain(i) == ~IsSpace(c[i]) /\ c[i] # "@"
    IN  \E at \in 2..(Len(c) - 3) : \E dot \in (at + 2)..(Len(c) - 1) :
            /\ c[at] = "@"
            /\ c[dot] = "."
            /\ \A i \in 1..Len(c) : i # at => plain(i)

\* mutant: an empty collection contains everything
IncludesFailClosed(list, s) == Len(list) = 0 \/ \E i \in 1..Len(list) : list[i] = s

\* Array.prototype.includes / Set.prototype.has
Includes(list, s) == \E i \in 1..Len(list) : list[i] = s

\* ---------------------------------------------------- the remote documents
\* the retrieval strategies of a document: Method 1, 2 (and 3)
Methods(doc) == IF doc = "blacklist" THEN 2 ELSE 3

\* how a strategy reads its response: the API envelope (response.json, atob),
\* a JSON file (response.json) or a text file (response.text)
MethodKind(doc, m) ==
    IF m = 1 THEN "api"
    ELSE IF doc = "blacklist" \/ m = 3 THEN "text"
    ELSE "json"

Host(m) == IF m = 1 THEN "api.github.com" ELSE "raw.githubusercontent.com"

Path(doc, m) ==
    CASE doc = "blacklist" -> "data/blacklist.txt"
      [] doc = "whitelist_set" -> IF m = 3 THEN "data/emails.txt" ELSE "data/list.json"
      [] doc = "redirect_urls" -> IF m = 3 THEN "data/urls.txt" ELSE "data/url.json"

\* what a strategy's request can come back with: the transport throws, the
\* response is not ok, its body does not parse, the parsed object lacks the
\* named array, or it carries these entries (the lines, for a text file)
Thrown0 == [kind |-> "throw", entries |-> <<>>]
NotOk == [kind |-> "status", entries |-> <<>>]
Garbage == [kind |-> "garbage", entries |-> <<>>]
NoField == [kind |-> "nofield", entries |-> <<>>]
Parsed(entries) == [kind |-> "parsed", entries |-> entries]

Entries(doc, kind) ==
    CASE doc = "blacklist" -> {<<"">>, <<"ip1", " ">>}
      [] doc = "whitelist_set" ->
            IF kind = "text" THEN {<<"">>, <<"a@B.c", " ", "ab">>}
            ELSE {<<>>, <<"a@B.c">>}
      [] doc = "redirect_urls" ->
            IF kind = "text" THEN {<<"">>, <<" http://u/", "ftp://u/">>}
            ELSE {<<>>, <<"http://u/", "ftp://u/">>}

Outcomes(doc, m) ==
    {Thrown0, NotOk}
        \cup {Parsed(e) : e \in Entries(doc, MethodKind(doc, m))}
        \cup (IF MethodKind(doc, m) = "text" THEN {} ELSE {Garbage})
        \cup (IF MethodKind(doc, m) = "text" \/ doc = "blacklist" THEN {} ELSE {NoField})

\* entries.map(line => line.trim())
TrimAll(entries) == [i \in 1..Len(entries) |-> Trim(entries[i])]

\* entries.map(email => email.toLowerCase())
LowerAll(entries) == [i \in 1..Len(entries) |-> ToLowerCase(entries[i])]

\* mutant: the emails of the JSON strategies keep their case
NormaliseKeepsCase(doc, m, entries) ==
    CASE doc = "blacklist" ->
            SelectSeq(entries, LAMBDA ip : Trim(ip) # "")
      [] doc = "whitelist_set" ->
            IF m = 3
            THEN LowerAll(SelectSeq(TrimAll(entries),
                                    LAMBDA email : email # "" /\ IncludesChar(email, "@")))
            ELSE entries
      [] doc = "redirect_urls" ->
            IF m = 3
            THEN SelectSeq(TrimAll(entries),
                           LAMBDA url : url # "" /\ StartsWith(url, "http"))
            ELSE entries

\* the parse rule of a strategy, applied to the entries its response carries
Normalise(doc, m, entries) ==
    CASE doc = "blacklist" ->
            SelectSeq(entries, LAMBDA ip : Trim(ip) # "")
      [] doc = "whitelist_set" ->
            IF m = 3
            THEN LowerAll(SelectSeq(TrimAll(entries),
                                    LAMBDA email : email # "" /\ IncludesChar(email, "@")))
            ELSE LowerAll(entries)
      [] doc = "redirect_urls" ->
            IF m = 3
            THEN SelectSeq(TrimAll(entries),
                           LAMBDA url : url # "" /\ StartsWith(url, "http"))
            ELSE entries

\* the try block of one strategy: the list after it, or that it threw
MethodTry(doc, m, list, outcome) ==
    CASE outcome.kind = "throw" -> [list |-> list, raised |-> TRUE]
      [] outcome.kind = "status" -> [list |-> list, raised |-> FALSE]
      [] outcome.kind = "garbage" -> [list |-> list, raised |-> TRUE]
      [] outcome.kind = "nofield" -> [list |-> <<>>, raised |-> FALSE]
      [] outcome.kind = "parsed" ->
            [list |-> Normalise(doc, m, outcome.entries), raised |-> FALSE]

\* mutant: a strategy without its catch
MethodNoCatch(doc, m, list, outcome) == MethodTry(doc, m, list, outcome)

\* one strategy with its catch: a throw is logged and the list stays as it was
MethodResult(doc, m, list, outcome) ==
    [MethodTry(doc, m, list, outcome) EXCEPT !.raised = FALSE]

\* the catch of the document function: a throw that reaches it gives the
\* empty list, the empty set, null
DocumentCatch(r) == IF r.raised THEN [list |-> <<>>, raised |-> FALSE] ELSE r

\* if (blacklist.length === 0), if (emails.length === 0), if (urls.length === 0)
TryNext(list) == Len(list) = 0

\* ------------------------------------------------------------- validation
RequestMethods == {"POST", "GET"}
RequestEmails == {Undefined, "A@b.c", "z@b.c", "a@b"}
RequestTokens == {Undefined, "tok"}
RequestHoneypots == {Undefined, " ", "x"}

NoResponse == [status |-> 0, success |-> FALSE, message |-> "", url |-> <<>>]

\* new Response(JSON.stringify({ success: false, message }), { status })
Failure(status, message) ==
    [status |-> status, success |-> FALSE, message |-> message, url |-> <<>>]

MethodNotAllowed == Failure(405, "Method Not Allowed")
HoneypotDenied == Failure(403, "Access denied")
MissingFields == Failure(400, "Missing required fields")
InvalidEmail == Failure(400, "Invalid email format")
VerificationFailed ==
    Failure(400, "Verification failed. Please complete the challenge and try again.")
BlacklistDenied == Failure(403, "Access denied")
NotWhitelisted ==
    Failure(403, "Sorry, this email isn't associated with this secure link")
\* mutant: an empty pool is answered as a denial
NoRedirectUrlsDenied == Failure(403, "Access denied")

NoRedirectUrls == Failure(500, "No redirect URLs available")
InternalError == Failure(500, "Internal server error")

\* mutant: the email is appended in lower case
SuccessLowerCased(redirectUrl, email) ==
    [status |-> 200, success |-> TRUE, message |-> "",
     url |-> Spell[redirectUrl] \o Spell[ToLowerCase(email)]]

\* { success: true, redirectUrl: `${redirectUrl}${email}` }, status 200
Success(redirectUrl, email) ==
    [status |-> 200, success |-> TRUE, message |-> "",
     url |-> Spell[redirectUrl] \o Spell[email]]

\* mutant: the honeypot test without the trim
HoneypotFilledUntrimmed(honeypotField) == Truthy(honeypotField)

\* honeypotField && honeypotField.trim() !== ''
HoneypotFilled(honeypotField) == Truthy(honeypotField) /\ Trim(honeypotField) # ""

Verdict(cause, resp) == [cause |-> cause, resp |-> resp]

\* mutant: the required fields are tested before the honeypot
EarlyChecksFieldsFirst(method, bodyOk, email, turnstileToken, honeypotField) ==
    IF method # "POST" THEN Verdict("method", MethodNotAllowed)
    ELSE IF ~bodyOk THEN Verdict("body", InternalError)
    ELSE IF ~Truthy(email) \/ ~Truthy(turnstileToken)
         THEN Verdict("fields", MissingFields)
    ELSE IF HoneypotFilled(honeypotField) THEN Verdict("honeypot", HoneypotDenied)
    ELSE IF ~EmailRegexTest(email) THEN Verdict("format", InvalidEmail)
    ELSE Verdict("", NoResponse)

\* mutant: a body that cannot be read leaves the handler without a response
EarlyChecksNoCatch(method, bodyOk, email, turnstileToken, honeypotField) ==
    IF method # "POST" THEN Verdict("method", MethodNotAllowed)
    ELSE IF ~bodyOk THEN Verdict("body", NoResponse)
    ELSE IF HoneypotFilled(honeypotField) THEN Verdict("honeypot", HoneypotDenied)
    ELSE IF ~Truthy(email) \/ ~Truthy(turnstileToken)
         THEN Verdict("fields", MissingFields)
    ELSE IF ~EmailRegexTest(email) THEN Verdict("format", InvalidEmail)
    ELSE Verdict("", NoResponse)

\* lines 140-183: the checks made before the first remote call
EarlyChecks(method, bodyOk, email, turnstileToken, honeypotField) ==
    IF method # "POST" THEN Verdict("method", MethodNotAllowed)
    ELSE IF ~bodyOk THEN Verdict("body", InternalError)
    ELSE IF HoneypotFilled(honeypotField) THEN Verdict("honeypot", HoneypotDenied)
    ELSE IF ~Truthy(email) \/ ~Truthy(turnstileToken)
         THEN Verdict("fields", MissingFields)
    ELSE IF ~EmailRegexTest(email) THEN Verdict("format", InvalidEmail)
    ELSE Verdict("", NoResponse)

\* the calls a handler makes: to the verification service, to the store, to
\* the document store.  vs.stages lists the remote checks entered so far, in
\* order; vs.calls lists the calls of the last one
Call(to, verb, doc, m, path) ==
    [to |-> to, verb |-> verb, doc |-> doc, m |-> m, path |-> path,
     authorization |-> <<>>, outcome |-> "pending"]

TurnstileCall == Call("challenges.cloudflare.com", "POST", "", 0, "turnstile/v0/siteverify")
KvCall(verb, doc) == Call("kv", verb, doc, 0, "cache:")

\* mutant: every strategy sends the token
AuthorizationEveryStrategy(m) ==
    IF Truthy(apiToken) THEN <<"token", apiToken>> ELSE <<>>

\* lines 312-314, 387-389, 495-497: Method 1 builds its headers with
\* Authorization: `token ${env.GITHUB_API_TOKEN}` when the token is
\* configured; Methods 2 and 3 call fetch(url) with no headers
Authorization(m) ==
    IF m = 1 /\ Truthy(apiToken) THEN <<"token", apiToken>> ELSE <<>>

\* mutant: a strategy sends its request as a PUT
FetchCallPut(doc, m) ==
    [Call(Host(m), "PUT", doc, m, Path(doc, m)) EXCEPT
        !.authorization = Authorization(m)]

\* fetch(url, { headers }): no method given, a GET
FetchCall(doc, m) ==
    [Call(Host(m), "GET", doc, m, Path(doc, m)) EXCEPT
        !.authorization = Authorization(m)]

Answered(calls, outcome) == [calls EXCEPT ![Len(calls)].outcome = outcome]

\* what the document function that returned last returned: the list, the
\* remote entries it was made from, whether it came from the cache, whether
\* every strategy had failed
NoList == [doc |-> "", raw |-> <<>>, list |-> <<>>, cached |-> FALSE, failed |-> FALSE]

IdleValidation ==
    [pc |-> "idle", method |-> "", clientIP |-> "", email |-> Undefined,
     turnstileToken |-> Undefined, honeypotField |-> Undefined,
     doc |-> "", m |-> 0, list |-> <<>>, raw |-> <<>>,
     returned |-> NoList, verification |-> "", timestamp |-> 0,
     cause |-> "", resp |-> NoResponse, stages |-> <<>>, calls |-> <<>>, n |-> 0]

\* the handler returns `verdict`
Respond(v, verdict) ==
    [v EXCEPT !.pc = "done", !.cause = verdict.cause, !.resp = verdict.resp,
              !.doc = "", !.m = 0, !.list = <<>>, !.raw = <<>>]

\* getBlacklist / getWhitelistSet / getRandomRedirectUrl is entered: the cache
\* is read first
BeginDocument(v, doc) ==
    [v EXCEPT !.pc = "cache", !.doc = doc, !.m = 0, !.list = <<>>, !.raw = <<>>,
              !.stages = Append(@, doc), !.calls = <<KvCall("get", doc)>>]

\* a strategy's request failed: it threw, its status was bad, its body did not parse
Failures == {"throw", "status", "garbage"}

\* every strategy of the document was tried and failed
AllFailed(calls) ==
    LET tried == {i \in 1..Len(calls) : calls[i].m >= 1}
    IN  /\ \A i \in tried : calls[i].outcome \in Failures
        /\ \E i \in tried : calls[i].m = Methods(calls[i].doc)

\* the document function has returned `list`; handleValidation goes on
\* (lines 200, 213-218, 231-252): the set of states it can go to
AfterDocument(v, list, raw, cached) ==
    LET w == [v EXCEPT !.returned = [doc |-> v.doc, raw |-> raw, list |-> list,
                                     cached |-> cached,
                                     failed |-> AllFailed(v.calls)]]
    IN  CASE v.doc = "blacklist" ->
                IF Includes(list, v.clientIP)
                THEN {Respond(w, Verdict("deny", BlacklistDenied))}
                ELSE {BeginDocument(w, "whitelist_set")}
          [] v.doc = "whitelist_set" ->
                IF Includes(list, ToLowerCase(v.email))
                THEN {BeginDocument(w, "redirect_urls")}
                ELSE {Respond(w, Verdict("allow", NotWhitelisted))}
          [] v.doc = "redirect_urls" ->
                IF Len(list) = 0
                THEN {Respond(w, Verdict("pool", NoRedirectUrls))}
                ELSE {Respond(w, Verdict("ok", Success(list[randomIndex], v.email))) :
                         randomIndex \in 1..Len(list)}

\* mutant: whatever the strategies produced is cached
ShouldCacheAlways(list) == TRUE

\* lines 353, 454, 558: if (blacklist.length > 0) await setCachedData(...)
ShouldCache(list) == Len(list) > 0

TurnstileOutcomes == {"throw", "garbage", "failure", "success"}

\* mutant: a verification call that throws counts as passed
TurnstileValidFailOpen(outcome) == outcome \in {"success", "throw"}

\* verifyTurnstile, lines 283-293: result.success, false when anything threw
TurnstileValid(outcome) == outcome = "success"

\* lines 138-186 and 266-281: the request is read and checked; when it passes,
\* the verification call is made and awaited
handleValidation(method, cf, xff, bodyOk, email, turnstileToken, honeypotField) ==
    /\ vs.pc \in {"idle", "done"}
    /\ LET v == [IdleValidation EXCEPT
                    !.n = vs.n + 1,
                    !.method = method,
                    !.clientIP = ClientIP(cf, xff),
                    !.email = IF bodyOk THEN email ELSE Undefined,
                    !.turnstileToken = IF bodyOk THEN turnstileToken ELSE Undefined,
                    !.honeypotField = IF bodyOk THEN honeypotField ELSE Undefined]
           verdict == EarlyChecks(method, bodyOk, v.email, v.turnstileToken,
                                  v.honeypotField)
       IN  vs' = IF verdict.cause # "" THEN Respond(v, verdict)
                 ELSE [v EXCEPT !.pc = "verify", !.stages = <<"verify">>,
                                !.calls = <<TurnstileCall>>]
    /\ UNCHANGED <<maxRequests, apiToken, remote, rt, windowSeconds, cacheTtl, degree, clock, kv, hs, log,
                   faults, cacheRet, lastPut, origin, writer>>

\* lines 283-293 and 187-199: the verification service answers (or the call
\* throws); on success getBlacklist is entered
verifyTurnstile(outcome) ==
    /\ vs.pc = "verify"
    /\ LET v == [vs EXCEPT !.calls = Answered(@, outcome), !.verification = outcome]
       IN  vs' = IF TurnstileValid(outcome) THEN BeginDocument(v, "blacklist")
                 ELSE Respond(v, Verdict("verify", VerificationFailed))
    /\ UNCHANGED <<maxRequests, apiToken, remote, rt, windowSeconds, cacheTtl, degree, clock, kv, hs, log,
                   faults, cacheRet, lastPut, origin, writer>>

\* lines 299-300, 371-375, 477-483: the cache answers; a hit is returned, a
\* miss starts Method 1
getCachedDocument(ok) ==
    /\ vs.pc = "cache"
    /\ LET cached == GetCachedResult(vs.doc, ok)
           v == [vs EXCEPT !.calls = Answered(@, IF ~ok THEN "throw"
                                                ELSE IF cached.found THEN "hit"
                                                ELSE "miss")]
       IN  IF cached.found
           THEN vs' \in AfterDocument(v, cached.data, origin[vs.doc], TRUE)
           ELSE vs' = [v EXCEPT !.pc = "fetch", !.m = 1,
                                !.calls = Append(@, FetchCall(vs.doc, 1))]
    /\ UNCHANGED <<maxRequests, apiToken, remote, rt, windowSeconds, cacheTtl, degree, clock, kv, hs, log,
                   faults, cacheRet, lastPut, origin, writer>>

\* lines 306-358, 381-459, 489-565: a strategy's request answers (or throws);
\* the next strategy is tried, or the list is cached, or it is returned
fetchDocument(outcome) ==
    /\ vs.pc = "fetch"
    /\ outcome \in Outcomes(vs.doc, vs.m)
    /\ LET r == MethodResult(vs.doc, vs.m, vs.list, outcome)
           v == [vs EXCEPT !.calls = Answered(@, outcome.kind),
                           !.list = r.list,
                           !.raw = IF outcome.kind \in {"parsed", "nofield"}
                                   THEN outcome.entries ELSE @]
       IN  IF DocumentCatch(r).raised
           THEN vs' = Respond(v, Verdict("error", InternalError))
           ELSE IF r.raised
           THEN vs' \in AfterDocument(v, DocumentCatch(r).list, <<>>, FALSE)
           ELSE IF vs.m < Methods(vs.doc) /\ TryNext(r.list)
           THEN vs' = [v EXCEPT !.m = vs.m + 1,
                                !.calls = Append(@, FetchCall(vs.doc, vs.m + 1))]
           ELSE IF ShouldCache(r.list)
           THEN vs' = [v EXCEPT !.pc = "put", !.timestamp = clock,
                                !.calls = Append(@, KvCall("put", vs.doc))]
           ELSE vs' \in AfterDocument(v, r.list, v.raw, FALSE)
    /\ UNCHANGED <<maxRequests, apiToken, remote, rt, windowSeconds, cacheTtl, degree, clock, kv, hs, log,
                   faults, cacheRet, lastPut, origin, writer>>

\* lines 353-360, 454-461, 558-568: setCachedData answers; the list is returned
cacheDocument(ok) ==
    /\ vs.pc = "put"
    /\ kv' = SetCachedResult(vs.doc, vs.list, vs.timestamp, ok).kv
    /\ origin' = IF ok THEN [origin EXCEPT ![vs.doc] = vs.raw] ELSE origin
    /\ writer' = IF ok THEN Wrote(CacheKey(vs.doc), "cache layer") ELSE writer
    /\ vs' \in AfterDocument([vs EXCEPT !.calls = Answered(@, IF ok THEN "ok" ELSE "throw"),
                                       !.timestamp = 0],
                            vs.list, vs.raw, FALSE)
    /\ UNCHANGED <<maxRequests, apiToken, remote, rt, windowSeconds, cacheTtl, degree, clock, hs, log,
                   faults, cacheRet, lastPut>>

\* ----------------------------------------------------------------- router
RouterMethods == {"OPTIONS", "GET", "POST"}
RouterPaths == {"/", "/styles.css", "/api/validate", "/nope"}

\* new Response(body, { status }): a response whose body is not JSON
PlainText(status, body) ==
    [status |-> status, success |-> FALSE, message |-> body, url |-> <<>>]

\* lines 8-17: new Response(null, { status: 200, headers: CORS })
Preflight == PlainText(200, "")

\* lines 21-29
TooManyRequests == Failure(429, "Too many requests. Please try again later.")

\* line 50
NotFound == PlainText(404, "Not Found")

\* lines 32-42: the file a path is served from, "" when it is no static path
StaticFile(path) ==
    CASE path \in {"/", "/index.html"} -> "index.html"
      [] path = "/styles.css" -> "styles.css"
      [] path = "/script.js" -> "script.js"
      [] OTHER -> ""

\* serveStaticFile, lines 1194-1208
serveStaticFile(filename) ==
    IF filename \in {"index.html", "styles.css", "script.js"}
    THEN PlainText(200, filename)
    ELSE PlainText(404, "File not found")

\* mutant: /api/validate is routed without looking at the limiter's answer
RouteValidateUngated(allowed, path) ==
    IF path = "/api/validate" THEN [pc |-> "validate", resp |-> NoResponse]
    ELSE IF ~allowed THEN [pc |-> "done", resp |-> TooManyRequests]
    ELSE IF StaticFile(path) # "" THEN [pc |-> "done", resp |-> serveStaticFile(StaticFile(path))]
    ELSE [pc |-> "done", resp |-> NotFound]

\* mutant: an unknown path is answered before the limiter's answer is looked at
RouteNotFoundFirst(allowed, path) ==
    IF StaticFile(path) = "" /\ path # "/api/validate"
    THEN [pc |-> "done", resp |-> NotFound]
    ELSE IF ~allowed THEN [pc |-> "done", resp |-> TooManyRequests]
    ELSE IF StaticFile(path) # "" THEN [pc |-> "done", resp |-> serveStaticFile(StaticFile(path))]
    ELSE [pc |-> "validate", resp |-> NoResponse]

\* lines 21-50: what fetch does with the limiter's answer: respond, or call
\* handleValidation
Route(allowed, path) ==
    IF ~allowed THEN [pc |-> "done", resp |-> TooManyRequests]
    ELSE IF StaticFile(path) # "" THEN [pc |-> "done", resp |-> serveStaticFile(StaticFile(path))]
    ELSE IF path = "/api/validate" THEN [pc |-> "validate", resp |-> NoResponse]
    ELSE [pc |-> "done", resp |-> NotFound]

\* no fetch invocation.  seen and vn: how many checkRateLimit calls of the
\* client and how many handleValidation calls had returned when the request
\* came in; answered: the responses returned so far
IdleRequest ==
    [pc |-> "idle", method |-> "", path |-> "", cf |-> "", xff |-> "",
     client |-> "", seen |-> 0, vn |-> 0, resp |-> NoResponse, n |-> 0,
     answered |-> 0]

\* lines 3-20: a request comes in; OPTIONS is answered at once, anything else
\* goes to checkRateLimit
fetch(method, path, cf, xff) ==
    /\ rt.pc \in {"idle", "done"}
    /\ LET request == [IdleRequest EXCEPT
                          !.n = rt.n + 1, !.answered = rt.answered,
                          !.method = method, !.path = path, !.cf = cf, !.xff = xff,
                          !.client = ClientIP(cf, xff),
                          !.seen = Len(log[ClientIP(cf, xff)]), !.vn = vs.n]
       IN  rt' = IF method = "OPTIONS"
                 THEN [request EXCEPT !.pc = "done", !.resp = Preflight,
                                      !.answered = @ + 1]
                 ELSE [request EXCEPT !.pc = "limit"]
    /\ UNCHANGED <<maxRequests, apiToken, remote, windowSeconds, cacheTtl, degree, clock,
                   kv, hs, log, faults, cacheRet, lastPut, vs, origin, writer>>

\* line 20: fetch calls checkRateLimit(request, env)
fetchCheckRateLimit ==
    /\ rt.pc = "limit"
    /\ Len(log[rt.client]) = rt.seen
    /\ \A s \in Slots : hs[s].pc = "idle"
    /\ RLStart(1, rt.cf, rt.xff)

\* lines 21-50: checkRateLimit has returned; fetch answers 429, serves a
\* file, answers 404, or calls handleValidation
route ==
    /\ rt.pc = "limit"
    /\ Len(log[rt.client]) = rt.seen + 1
    /\ LET rateLimitResult == log[rt.client][Len(log[rt.client])]
           r == Route(rateLimitResult.allowed, rt.path)
       IN  rt' = [rt EXCEPT !.pc = r.pc, !.resp = r.resp,
                            !.answered = IF r.pc = "done" THEN @ + 1 ELSE @]
    /\ UNCHANGED <<maxRequests, apiToken, remote, windowSeconds, cacheTtl, degree, clock,
                   kv, hs, log, faults, cacheRet, lastPut, vs, origin, writer>>

\* line 46: fetch calls handleValidation(request, env)
fetchHandleValidation(bodyOk, email, turnstileToken, honeypotField) ==
    /\ rt.pc = "validate"
    /\ vs.n = rt.vn
    /\ handleValidation(rt.method, rt.cf, rt.xff, bodyOk, email, turnstileToken,
                        honeypotField)

\* line 46: handleValidation has returned; fetch returns its response
fetchReturn ==
    /\ rt.pc = "validate"
    /\ vs.n = rt.vn + 1
    /\ vs.pc = "done"
    /\ rt' = [rt EXCEPT !.pc = "done", !.resp = vs.resp, !.answered = @ + 1]
    /\ UNCHANGED <<maxRequests, apiToken, remote, windowSeconds, cacheTtl, degree, clock,
                   kv, hs, log, faults, cacheRet, lastPut, vs, origin, writer>>

\* ------------------------------------------------------ the document store
\* the allow-list as the repository holds it: `list`; before its last change
\* it held `previous`; racing: the handleValidation invocation, if any, whose
\* Method 1 request for it was in flight when it changed
InitialRemote ==
    [list |-> <<"a@B.c">>, previous |-> <<"a@B.c">>, changedAt |-> 0, racing |-> 0]

\* "Edit files in your GitHub repository, commit and push changes": the one
\* address is taken off the allow-list
ChangeDocument ==
    /\ remote.changedAt = 0
    /\ remote' = [list |-> <<>>, previous |-> remote.list, changedAt |-> clock,
                  racing |-> IF vs.pc = "fetch" /\ vs.doc = "whitelist_set" /\ vs.m = 1
                             THEN vs.n ELSE 0]
    /\ UNCHANGED <<maxRequests, apiToken, rt, windowSeconds, cacheTtl, degree, clock,
                   kv, hs, log, faults, cacheRet, lastPut, vs, origin, writer>>

\* what a Method 1 request for the allow-list can be answered with: what the
\* repository holds now, or what it held when the request was on its way
Served ==
    {remote.list} \cup (IF remote.racing = vs.n /\ vs.doc = "whitelist_set" /\ vs.m = 1
                        THEN {remote.previous} ELSE {})

\* ------------------------------------------------------------------- time
Burst == (clock - StartMs) % IdleMs

\* the clock advances by d milliseconds, at most n times in a row
Tick(d, n) ==
    /\ Burst + d <= n * d
    /\ clock' = clock + d
    /\ UNCHANGED <<maxRequests, apiToken, remote, rt, windowSeconds, cacheTtl, degree, kv, hs, log,
                   faults, cacheRet, lastPut, vs, origin, writer>>

\* a quiet period as long as the store's expiry buffer, no handler in flight
Idle ==
    /\ clock - StartMs < MaxIdles * IdleMs
    /\ \A s \in Slots : hs[s].pc = "idle"
    /\ clock' = clock + IdleMs
    /\ UNCHANGED <<maxRequests, apiToken, remote, rt, windowSeconds, cacheTtl, degree, kv, hs, log,
                   faults, cacheRet, lastPut, vs, origin, writer>>

\* ------------------------------------------------------------------ start
Init ==
    /\ maxRequests \in CapValues
    /\ windowSeconds \in WindowValues
    /\ cacheTtl \in TtlValues
    /\ degree \in 1..MaxConc
    /\ clock = StartMs
    /\ kv = [k \in Keys |-> NoEntry]
    /\ hs = [s \in Slots |-> IdleSlot]
    /\ log = [c \in Clients |-> <<>>]
    /\ faults = 0
    /\ cacheRet = NoCacheOp
    /\ lastPut = [n \in CacheNames |-> NoPut]
    /\ vs = IdleValidation
    /\ origin = [n \in DocNames |-> <<>>]
    /\ writer = [k \in Keys |-> {}]
    /\ apiToken \in ApiTokens
    /\ remote = InitialRemote
    /\ rt = IdleRequest

\* ------------------------------------------- the rate limiter, specification
InitRateLimit == Init /\ cacheTtl = 1 /\ apiToken = "secret"

NextRateLimit ==
    \/ \E s \in Slots, cf \in CfHeaders, xff \in XffHeaders :
          Started < MaxReqs /\ RLStart(s, cf, xff)
    \/ \E s \in Slots, ok \in BOOLEAN : RLGet(s, ok)
    \/ \E s \in Slots, ok \in BOOLEAN : RLPut(s, ok)
    \/ Tick(MsPerSecond, MaxRateTicks)

SpecRateLimit == InitRateLimit /\ [][NextRateLimit]_vars

\* --------------------------------------------------- the rate limiter, claims
\* the admitted calls of client c that finished before its i-th call and whose
\* timestamp lies inside the window of the i-th call
AdmittedBefore(c, i) ==
    {j \in 1..(i - 1) : /\ log[c][j].allowed
                        /\ log[c][j].now > log[c][i].now - windowSeconds}

\* C1: when a client's calls do not overlap and the store answers, a call is
\* admitted exactly when fewer than maxRequests of that client's earlier
\* admitted calls lie inside its window: the first maxRequests calls of a window
\* are admitted, the next one is rejected, and a call made after every recorded
\* timestamp has left the window is admitted again.
C1_SlidingWindow ==
    (degree = 1 /\ faults = 0) =>
        \A c \in Clients : \A i \in 1..Len(log[c]) :
            log[c][i].allowed <=> Cardinality(AdmittedBefore(c, i)) < maxRequests

C1_Witness ==
    /\ degree = 1
    /\ faults = 0
    /\ \E c \in Clients : \E j, k \in 1..Len(log[c]) :
          /\ j < k
          /\ ~log[c][j].allowed
          /\ Cardinality(AdmittedBefore(c, j)) = maxRequests
          /\ \A i \in 1..(j - 1) : log[c][i].allowed
          /\ log[c][k].allowed
          /\ AdmittedBefore(c, k) = {}

\* client c's call returns in this step, with a rejection
Rejects(c) ==
    /\ Len(log'[c]) = Len(log[c]) + 1
    /\ ~log'[c][Len(log'[c])].allowed

\* C3: a rejected call writes nothing to the store: the client's record, its
\* timestamps and its expiration are as they were.
C3_RejectWritesNothing == [][\A c \in Clients : Rejects(c) => kv' = kv]_vars

C3_Witness ==
    \E c \in Clients : \E i \in 1..Len(log[c]) :
        /\ ~log[c][i].allowed
        /\ Cardinality(AdmittedBefore(c, i)) >= maxRequests
        /\ kv[RateKey(c)].present

\* C4: a call during which the store read or the store write failed is admitted
\* with remaining = 1, whatever the client's history; it is never rejected.
C4_FailOpen ==
    \A c \in Clients : \A i \in 1..Len(log[c]) :
        log[c][i].err => (log[c][i].allowed /\ log[c][i].remaining = 1)

C4_Witness ==
    \E c \in Clients : \E i \in 1..Len(log[c]) :
        /\ log[c][i].err
        /\ Cardinality(AdmittedBefore(c, i)) >= maxRequests

\* slot s's call is admitted in this step, its write having reached the store
Admits(s) ==
    /\ hs[s].pc = "put"
    /\ hs'[s].pc = "idle"
    /\ ~log'[hs[s].client][Len(log'[hs[s].client])].err

\* C5: an admitted call leaves in the store exactly the timestamps it read that
\* lie inside its window, in their stored order, followed by its own timestamp,
\* with store expiration windowSeconds + 60.
C5_PersistedRecord ==
    [][\A s \in Slots : Admits(s) =>
          LET entry == kv'[RateKey(hs[s].client)]
              kept == SelectSeq(hs[s].read,
                                LAMBDA t : t > hs[s].now - windowSeconds)
          IN  /\ entry.present
              /\ ParseRate(entry.text) = Append(kept, hs[s].now)
              /\ entry.expireAt = clock + (windowSeconds + KvBufferSeconds) * MsPerSecond
      ]_vars

C5_Witness ==
    \E c \in Clients :
        /\ kv[RateKey(c)].present
        /\ Len(ParseRate(kv[RateKey(c)].text)) >= 2
        /\ \E i \in 1..Len(log[c]) :
              /\ log[c][i].allowed
              /\ ~log[c][i].err
              /\ \A j \in 1..Len(ParseRate(kv[RateKey(c)].text)) :
                    ParseRate(kv[RateKey(c)].text)[j] # log[c][i].now

\* the timestamps a call in flight has read and kept, its own excluded
Kept(s) == SubSeq(hs[s].requests, 1, Len(hs[s].requests) - 1)

\* C6, as stated: a stored timestamp is dropped only when it is older than
\* now - windowSeconds, so one exactly windowSeconds old still counts.
C6_Original ==
    \A s \in Slots : hs[s].pc = "put" =>
        Kept(s) = SelectSeq(hs[s].read, LAMBDA t : ~(t < hs[s].now - windowSeconds))

\* C6, amended: a stored timestamp is dropped when it is windowSeconds old or
\* older (timestamp <= now - windowSeconds); only younger ones count.
C6_Amended ==
    \A s \in Slots : hs[s].pc = "put" =>
        Kept(s) = SelectSeq(hs[s].read, LAMBDA t : ~(t <= hs[s].now - windowSeconds))

C6_Witness ==
    \E s \in Slots :
        /\ hs[s].pc = "put"
        /\ \E i \in 1..Len(hs[s].read) : hs[s].read[i] = hs[s].now - windowSeconds

\* ------------------------------------------------ the write race, specification
InitRace == Init /\ cacheTtl = 1 /\ apiToken = "secret"

NextRace ==
    \/ \E s \in Slots : Started < RaceReqs /\ RLStart(s, "ip1", "")
    \/ \E s \in Slots : RLGet(s, TRUE)
    \/ \E s \in Slots : RLPut(s, TRUE)
    \/ Tick(MsPerSecond, MaxRateTicks)

SpecRace == InitRace /\ [][NextRace]_vars

\* the calls of client c admitted with a timestamp in the window that ends at t
AdmittedIn(c, t) ==
    {i \in 1..Len(log[c]) : /\ log[c][i].allowed
                            /\ log[c][i].now > t - windowSeconds
                            /\ log[c][i].now <= t}

\* C2: with at most `degree` calls of one client in flight at once, the calls
\* admitted for that client inside any one window number at most
\* maxRequests + (degree - 1).
C2_BoundedOverrun ==
    \A c \in Clients : \A i \in 1..Len(log[c]) :
        Cardinality(AdmittedIn(c, log[c][i].now)) <= maxRequests + (degree - 1)

\* ---------------------------------------------------- the cache, specification
InitCache == Init /\ maxRequests = 1 /\ windowSeconds = 1 /\ degree = 1 /\ apiToken = "secret"

NextCache ==
    \/ \E key \in CacheNames, ok \in BOOLEAN : getCachedData(key, ok)
    \/ \E key \in CacheNames, data \in Payloads, ok \in BOOLEAN :
          setCachedData(key, data, ok)
    \/ Tick(TickMs, MaxCacheTicks)
    \/ Idle

SpecCache == InitCache /\ [][NextCache]_vars

\* ------------------------------------------------------------ the cache, claims
\* a cache operation returns in this step
CacheOp == cacheRet' # cacheRet

\* the store answered the getCachedData that returns in this step
GetOp == CacheOp /\ cacheRet'.op = "get" /\ ~cacheRet'.err

\* the cache operation that returned last, no time having passed since
JustDid(op) == cacheRet.op = op /\ cacheRet.at = clock

\* C7: a get that follows a set of the same name, the store answering, returns
\* the payload that was set when less than CACHE_TTL seconds have passed since
\* the set, and returns absent once CACHE_TTL seconds have passed, although the
\* entry is still in the store.
C7_GetAfterSet ==
    [][(GetOp /\ lastPut[cacheRet'.name].done) =>
          LET put == lastPut[cacheRet'.name]
          IN  IF clock - put.at < cacheTtl * MsPerSecond
              THEN cacheRet'.found /\ cacheRet'.data = put.data
              ELSE ~cacheRet'.found
      ]_vars

C7_Witness ==
    /\ JustDid("get")
    /\ ~cacheRet.err
    /\ lastPut[cacheRet.name].done
    /\ clock - lastPut[cacheRet.name].at >= cacheTtl * MsPerSecond
    /\ Len(lastPut[cacheRet.name].data) = 2
    /\ KvLive(CacheKey(cacheRet.name))
    /\ ~cacheRet.found

\* C8: getCachedData returns the stored payload if and only if the entry's age
\* in milliseconds is strictly less than ttl * 1000; at an age of exactly
\* ttl * 1000 it returns absent.
C8_StaleAtTtl ==
    [][(GetOp /\ StoredAge(cacheRet'.name) >= 0) =>
          (cacheRet'.found <=> StoredAge(cacheRet'.name) < cacheTtl * MsPerSecond)
      ]_vars

C8_Witness ==
    /\ JustDid("get")
    /\ ~cacheRet.err
    /\ StoredAge(cacheRet.name) = cacheTtl * MsPerSecond
    /\ ~cacheRet.found
    /\ \E other \in CacheNames :
          /\ StoredAge(other) > 0
          /\ StoredAge(other) < cacheTtl * MsPerSecond

\* C9: getCachedData never raises and returns absent when no entry exists or
\* the store read fails; setCachedData never raises, and when the store write
\* fails it leaves the store as it was.
C9_CacheNeverRaises ==
    [][CacheOp =>
          /\ ~cacheRet'.raised
          /\ (/\ cacheRet'.op = "get"
              /\ (cacheRet'.err \/ ~kv[CacheKey(cacheRet'.name)].present))
                 => ~cacheRet'.found
          /\ (cacheRet'.op = "set" /\ cacheRet'.err) => kv' = kv
      ]_vars

C9_Witness ==
    /\ JustDid("get")
    /\ cacheRet.err
    /\ StoredAge(cacheRet.name) >= 0
    /\ StoredAge(cacheRet.name) < cacheTtl * MsPerSecond
    /\ ~cacheRet.found
    /\ ~cacheRet.raised

\* C10: an entry that is logically fresh (less than CACHE_TTL seconds have
\* passed since it was set) is still in the store.
C10_FreshIsPresent ==
    \A name \in CacheNames :
        (lastPut[name].done /\ clock - lastPut[name].at < cacheTtl * MsPerSecond)
            => KvLive(CacheKey(name))

C10_Witness ==
    \E gone, name \in CacheNames :
        /\ kv[CacheKey(gone)].present
        /\ clock >= kv[CacheKey(gone)].expireAt
        /\ lastPut[name].done
        /\ clock - lastPut[name].at < cacheTtl * MsPerSecond
        /\ KvLive(CacheKey(name))

\* ------------------------------------------------ validation, specification
InitValidate ==
    Init /\ maxRequests = 1 /\ windowSeconds = 1 /\ degree = 1 /\ cacheTtl = 1
         /\ apiToken = "secret"

NextValidate ==
    \/ \E method \in RequestMethods, cf \in CfHeaders, xff \in XffHeaders,
          bodyOk \in BOOLEAN, email \in RequestEmails,
          turnstileToken \in RequestTokens, honeypotField \in RequestHoneypots :
          /\ vs.n < MaxValidations
          /\ handleValidation(method, cf, xff, bodyOk, email, turnstileToken,
                              honeypotField)
    \/ \E outcome \in TurnstileOutcomes : verifyTurnstile(outcome)
    \/ \E ok \in BOOLEAN : getCachedDocument(ok)
    \/ \E outcome \in UNION {Outcomes(d, m) : d \in DocNames, m \in 1..3} :
          fetchDocument(outcome)
    \/ \E ok \in BOOLEAN : cacheDocument(ok)

SpecValidate == InitValidate /\ [][NextValidate]_vars

\* ------------------------------------------------------- validation, claims
\* the calls of the current document function that tried a strategy
Tried == {i \in 1..Len(vs.calls) : vs.calls[i].m >= 1}

\* C11: the strategies of a document are attempted in one fixed order
\* (Method 1, then 2, then 3), and once a strategy has answered with a
\* successful response and parseable content, an empty list included, no
\* later strategy is attempted.
C11_FirstSuccessWins ==
    /\ \A i \in Tried :
          /\ vs.calls[i].m = 1 \/ (i - 1 \in Tried /\ vs.calls[i - 1].m = vs.calls[i].m - 1)
          /\ vs.calls[i].path = Path(vs.calls[i].doc, vs.calls[i].m)
    /\ \A i, j \in Tried : (i < j) => vs.calls[i].outcome # "parsed"

\* C12: a document function never lets an exception out: a strategy that
\* fails (transport, status or parse) is followed by the next strategy, and
\* when every strategy has failed the function returns the empty collection.
C12_NeverPropagates ==
    /\ vs.cause # "error"
    /\ \A i \in Tried :
          (vs.calls[i].outcome \in Failures /\ vs.calls[i].m < Methods(vs.calls[i].doc))
              => (i + 1 \in Tried /\ vs.calls[i + 1].m = vs.calls[i].m + 1)
    /\ vs.returned.failed => vs.returned.list = <<>>
    /\ (vs.pc = "done" /\ vs.returned.failed) =>
          CASE vs.returned.doc = "blacklist" -> FALSE
            [] vs.returned.doc = "whitelist_set" -> vs.resp = NotWhitelisted
            [] vs.returned.doc = "redirect_urls" -> vs.resp = NoRedirectUrls

C12_Witness ==
    /\ vs.pc = "done"
    /\ vs.returned.doc = "whitelist_set"
    /\ vs.returned.failed
    /\ vs.resp = NotWhitelisted
    /\ {vs.calls[i].outcome : i \in Tried} = Failures

\* the remote checks of handleValidation, in the order of the code
StageOrder == <<"verify", "blacklist", "whitelist_set", "redirect_urls">>

\* a field value that has a character other than white space
NonBlank(s) == s # Undefined /\ \E i \in 1..Len(Spell[s]) : ~IsSpace(Spell[s][i])

\* a POST request whose body was read has been answered
Answered1 == vs.pc = "done" /\ vs.method = "POST" /\ vs.cause # "body"

\* C13: the checks are evaluated in the order honeypot, required fields, email
\* format, bot verification, deny-list, allow-list, redirect pool; the first
\* check that fails determines the response, and no later check is entered:
\* none of its remote calls is made.
C13_FirstFailureDecides ==
    /\ vs.stages = SubSeq(StageOrder, 1, Len(vs.stages))
    /\ Answered1 =>
          IF NonBlank(vs.honeypotField)
          THEN vs.resp = HoneypotDenied /\ vs.stages = <<>> /\ vs.calls = <<>>
          ELSE IF vs.email \in {Undefined, ""} \/ vs.turnstileToken \in {Undefined, ""}
          THEN vs.resp = MissingFields /\ vs.stages = <<>> /\ vs.calls = <<>>
          ELSE IF ~EmailRegexTest(vs.email)
          THEN vs.resp = InvalidEmail /\ vs.stages = <<>> /\ vs.calls = <<>>
          ELSE /\ vs.stages # <<>>
               /\ vs.resp = VerificationFailed <=> Len(vs.stages) = 1
               /\ vs.resp = BlacklistDenied <=> Len(vs.stages) = 2
               /\ vs.resp = NotWhitelisted <=> Len(vs.stages) = 3
               /\ (vs.resp = NoRedirectUrls \/ vs.resp.success) <=> Len(vs.stages) = 4
               /\ Len(vs.stages) = 1 => vs.calls[1].outcome # "success"
               /\ Len(vs.stages) = 2 => Includes(vs.returned.list, vs.clientIP)
               /\ Len(vs.stages) = 3 =>
                     ~Includes(vs.returned.list, ToLowerCase(vs.email))
               /\ \A i \in 1..Len(vs.calls) :
                     vs.calls[i].doc = vs.stages[Len(vs.stages)]
                        \/ (Len(vs.stages) = 1 /\ vs.calls[i] = Answered(<<TurnstileCall>>,
                                                     vs.calls[i].outcome)[1])

C13_Witness ==
    /\ Answered1
    /\ NonBlank(vs.honeypotField)
    /\ vs.email = Undefined
    /\ vs.turnstileToken = Undefined
    /\ vs.resp = HoneypotDenied

\* C14: a request whose honeypot field has any non-blank value is rejected
\* with 403 whatever its email and token, before any remote call; an absent
\* or whitespace-only honeypot field never causes a rejection: such a request
\* gets a 403 'Access denied' only as a deny-list hit.
C14_Honeypot ==
    Answered1 =>
        /\ NonBlank(vs.honeypotField) =>
              (vs.resp.status = 403 /\ ~vs.resp.success /\ vs.stages = <<>>)
        /\ (~NonBlank(vs.honeypotField) /\ vs.resp = HoneypotDenied) =>
              /\ vs.returned.doc = "blacklist"
              /\ Includes(vs.returned.list, vs.clientIP)

C14_Witness ==
    /\ Answered1
    /\ vs.honeypotField = "x"
    /\ vs.email = "A@b.c"
    /\ vs.turnstileToken = "tok"
    /\ vs.resp.status = 403

\* C15: a rejection for a deny-list hit and a rejection for an allow-list
\* miss are the same response: the same status and the same message.
C15_SameRejection ==
    vs.pc = "done" =>
        /\ vs.returned.doc = "blacklist" => vs.resp = NotWhitelisted
        /\ vs.returned.doc = "whitelist_set" => vs.resp = BlacklistDenied

\* C16: a failed bot verification is answered like the other authorization
\* failures (honeypot, deny-list hit, allow-list miss): 403 and the one
\* generic message.
C16_VerificationLikeOthers ==
    (vs.pc = "done" /\ vs.stages = <<"verify">>) =>
        /\ vs.resp.status = 403
        /\ vs.resp.message = HoneypotDenied.message
        /\ vs.resp.message = BlacklistDenied.message
        /\ vs.resp.message = NotWhitelisted.message

\* C17: a request that passed every access check and finds the redirect pool
\* empty, or cannot obtain it, is answered 500, never 400 or 403, without a
\* redirectUrl.
C17_EmptyPoolIs500 ==
    (vs.pc = "done" /\ vs.returned.doc = "redirect_urls" /\ vs.returned.list = <<>>) =>
        /\ vs.resp.status = 500
        /\ ~vs.resp.success
        /\ vs.resp.url = <<>>

C17_Witness ==
    /\ vs.pc = "done"
    /\ vs.stages = StageOrder
    /\ vs.returned.doc = "redirect_urls"
    /\ vs.returned.failed
    /\ vs.resp.status = 500

\* --------------------------- validation over a warm cache, specification
\* Requests that pass the checks made before the documents are read: POST,
\* no honeypot, a well-formed email, a token the verification service accepts,
\* from a client without address headers.
InitCachedDocuments ==
    Init /\ maxRequests = 1 /\ windowSeconds = 1 /\ degree = 1 /\ cacheTtl = 1
         /\ apiToken = "secret"

NextCachedDocuments ==
    \/ \E email \in {"A@b.c", "z@b.c"} :
          /\ vs.n < MaxRevalidations
          /\ handleValidation("POST", "", "", TRUE, email, "tok", Undefined)
    \/ verifyTurnstile("success")
    \/ \E ok \in BOOLEAN : getCachedDocument(ok)
    \/ \E outcome \in UNION {Outcomes(d, m) : d \in DocNames, m \in 1..3} :
          fetchDocument(outcome)
    \/ \E ok \in BOOLEAN : cacheDocument(ok)
    \/ Tick(MsPerSecond, MaxValidateTicks)

SpecCachedDocuments == InitCachedDocuments /\ [][NextCachedDocuments]_vars

\* ---------------------------------- validation over a warm cache, claims
\* two strings that differ at most in the case of their letters
SameLetters(a, b) ==
    /\ Len(Spell[a]) = Len(Spell[b])
    /\ \A i \in 1..Len(Spell[a]) :
          \/ Spell[a][i] = Spell[b][i]
          \/ {Spell[a][i], Spell[b][i]} \in {{"a", "A"}, {"b", "B"}}

\* C18: a request whose email differs only in letter case from an entry of
\* the remote allow-list passes the allow-list check, whether the allow-list
\* was fetched for this request, by whichever strategy, or read from the cache.
C18_CaseInsensitive ==
    (/\ vs.returned.doc = "whitelist_set"
     /\ \E i \in 1..Len(vs.returned.raw) : SameLetters(vs.returned.raw[i], vs.email))
        => (vs.pc # "done" /\ vs.doc = "redirect_urls")

C18_Witness ==
    /\ vs.returned.doc = "whitelist_set"
    /\ vs.returned.cached
    /\ vs.email = "A@b.c"
    /\ \E i \in 1..Len(vs.returned.raw) :
          /\ vs.returned.raw[i] # vs.email
          /\ vs.returned.raw[i] # ToLowerCase(vs.email)
          /\ SameLetters(vs.returned.raw[i], vs.email)
    /\ vs.doc = "redirect_urls"

\* C19: a successful response has status 200, success = true and a
\* redirectUrl that is one element of the redirect pool the request obtained,
\* from the cache or from a fetch, immediately followed by the email exactly
\* as it was submitted (not lower-cased).
C19_RedirectUrl ==
    (vs.pc = "done" /\ vs.resp.success) =>
        /\ vs.resp.status = 200
        /\ vs.returned.doc = "redirect_urls"
        /\ \E i \in 1..Len(vs.returned.list) :
              vs.resp.url = Spell[vs.returned.list[i]] \o Spell[vs.email]

C19_Witness ==
    /\ vs.pc = "done"
    /\ vs.resp.success
    /\ vs.returned.cached
    /\ Len(vs.returned.list) = 2
    /\ vs.email = "A@b.c"
    /\ vs.resp.url = Spell[vs.returned.list[2]] \o <<"A", "@", "b", ".", "c">>

\* ------------------------------------- the two stores, specification
\* The rate limiter and the validation at work on the one key-value store.
InitStore ==
    Init /\ maxRequests = 1 /\ windowSeconds = 1 /\ degree = 1 /\ cacheTtl = 1
         /\ apiToken = "secret"

NextStore ==
    \/ \E s \in Slots, cf \in CfHeaders, xff \in XffHeaders :
          Started < MaxStoreReqs /\ RLStart(s, cf, xff)
    \/ \E s \in Slots, ok \in BOOLEAN : RLGet(s, ok)
    \/ \E s \in Slots, ok \in BOOLEAN : RLPut(s, ok)
    \/ \E cf \in CfHeaders :
          /\ vs.n < MaxValidations
          /\ handleValidation("POST", cf, "", TRUE, "A@b.c", "tok", Undefined)
    \/ \E outcome \in TurnstileOutcomes : verifyTurnstile(outcome)
    \/ \E ok \in BOOLEAN : getCachedDocument(ok)
    \/ \E outcome \in UNION {Outcomes(d, m) : d \in DocNames, m \in 1..3} :
          fetchDocument(outcome)
    \/ \E ok \in BOOLEAN : cacheDocument(ok)

SpecStore == InitStore /\ [][NextStore]_vars

\* ------------------------------------------------ the two stores, claims
DocumentStore == {"api.github.com", "raw.githubusercontent.com"}

\* C20: nothing is ever written to the remote document store: every request
\* to it is a GET; what the system writes is the key-value store, where a
\* rate_limit: key is written by the rate limiter only and a cache: key by
\* the cache layer only, so that the two never write the same key.
C20_Frame ==
    /\ \A i \in 1..Len(vs.calls) :
          /\ vs.calls[i].to \in DocumentStore \cup {"kv", "challenges.cloudflare.com"}
          /\ vs.calls[i].to \in DocumentStore => vs.calls[i].verb = "GET"
    /\ \A k \in Keys :
          /\ kv[k].present <=> writer[k] # {}
          /\ k[1] = "rate_limit:" => writer[k] \subseteq {"rate limiter"}
          /\ k[1] = "cache:" => writer[k] \subseteq {"cache layer"}
          /\ k[1] \in {"rate_limit:", "cache:"}

C20_Witness ==
    /\ \E c \in Clients : writer[RateKey(c)] = {"rate limiter"}
    /\ \E d \in DocNames : writer[CacheKey(d)] = {"cache layer"}
    /\ \E i \in 1..Len(vs.calls) :
          vs.calls[i].to \in DocumentStore /\ vs.calls[i].outcome = "parsed"

\* ----------------------------------------- validation, verification and input
\* the calls of the current stage that went to the verification service
VerificationCalls == {i \in 1..Len(vs.calls) : vs.calls[i].to = TurnstileCall.to}

\* C23: the bot-verification service is called at most once per request; if
\* that call errors or returns a non-success result the request is rejected
\* and never reaches the deny-list, allow-list or redirect steps (fail
\* closed, no retry).
C23_VerifyOnceFailClosed ==
    /\ Cardinality({i \in 1..Len(vs.stages) : vs.stages[i] = "verify"}) <= 1
    /\ Cardinality(VerificationCalls) <= (IF Len(vs.stages) = 1 THEN 1 ELSE 0)
    /\ vs.verification \notin {"", "success"} =>
          /\ vs.pc = "done"
          /\ vs.resp = VerificationFailed
          /\ vs.stages = <<"verify">>
          /\ vs.returned = NoList
    /\ Len(vs.stages) >= 2 => vs.verification = "success"

C23_Witness ==
    /\ vs.pc = "done"
    /\ vs.verification = "throw"
    /\ vs.calls = Answered(<<TurnstileCall>>, "throw")
    /\ vs.resp = VerificationFailed

\* the request is a POST whose input is malformed or missing, and it has no
\* filled honeypot
Malformed ==
    /\ vs.method = "POST"
    /\ ~NonBlank(vs.honeypotField)
    /\ \/ vs.cause = "body"
       \/ vs.email \in {Undefined, ""}
       \/ vs.turnstileToken \in {Undefined, ""}
       \/ ~EmailRegexTest(vs.email)

\* C24: a POST to /api/validate whose input is malformed or missing (no email,
\* no token, an email of the wrong shape, or a body that cannot be parsed) is
\* answered with status 400 and a specific message.
C24_MalformedIs400 ==
    (vs.pc = "done" /\ Malformed) =>
        /\ vs.resp.status = 400
        /\ vs.resp \in {MissingFields, InvalidEmail}

\* ------------------------------------------ the rate limiter, further claims
\* the timestamps stored for client c
StoredTimestamps(c) ==
    IF kv[RateKey(c)].present THEN ParseRate(kv[RateKey(c)].text) ELSE <<>>

\* the number of consecutive rejected calls of client c just before its k-th
RECURSIVE RejectedBefore(_, _)
RejectedBefore(c, k) ==
    IF k = 1 \/ log[c][k - 1].allowed THEN 0 ELSE 1 + RejectedBefore(c, k - 1)

\* C26: rate limiting applies progressive delays with exponential backoff: the
\* time a client has to wait before being admitted again grows with the number
\* of its consecutive rejected requests.  With delays in whole seconds that
\* double, a client admitted after r consecutive rejections has waited at
\* least 2^(r-1) seconds since the last of them.
C26_ExponentialBackoff ==
    degree = 1 =>
        \A c \in Clients : \A k \in 1..Len(log[c]) :
            (log[c][k].allowed /\ RejectedBefore(c, k) >= 1) =>
                log[c][k].now - log[c][k - 1].now >= 2 ^ (RejectedBefore(c, k) - 1)

\* C28: the timestamp sequence stored for a client is ordered (non-decreasing)
\* in every reachable state, also when calls of the same client overlap.
C28_StoredOrdered ==
    \A c \in Clients : \A i, j \in 1..Len(StoredTimestamps(c)) :
        (i < j) => StoredTimestamps(c)[i] <= StoredTimestamps(c)[j]

\* C29: in every reachable state, under any interleaving of calls of the same
\* client, the timestamp list stored for a client holds at most maxRequests
\* entries.
C29_StoredAtMostCap ==
    \A c \in Clients : Len(StoredTimestamps(c)) <= maxRequests

C29_Witness ==
    /\ degree = 2
    /\ maxRequests = 2
    /\ \E c \in Clients :
          /\ Len(StoredTimestamps(c)) = maxRequests
          /\ \E s \in Slots : /\ hs[s].pc = "put"
                              /\ hs[s].client = c
                              /\ Len(hs[s].requests) = maxRequests
                              /\ hs[s].requests # StoredTimestamps(c)

\* ------------------------------------------------- the API token, specification
\* a request that passes the early checks and the verification, with
\* GITHUB_API_TOKEN configured or not
InitToken ==
    Init /\ maxRequests = 1 /\ windowSeconds = 1 /\ degree = 1 /\ cacheTtl = 1

NextToken ==
    \/ \E cf \in CfHeaders :
          /\ vs.n < MaxValidations
          /\ handleValidation("POST", cf, "", TRUE, "A@b.c", "tok", Undefined)
    \/ verifyTurnstile("success")
    \/ \E ok \in BOOLEAN : getCachedDocument(ok)
    \/ \E outcome \in UNION {Outcomes(d, m) : d \in DocNames, m \in 1..3} :
          fetchDocument(outcome)
    \/ \E ok \in BOOLEAN : cacheDocument(ok)

SpecToken == InitToken /\ [][NextToken]_vars

\* C27: the configured API token is attached only to the first (authenticated
\* API) retrieval strategy of each document; requests made by the fallback
\* strategies never carry it.
C27_TokenOnlyOnMethod1 ==
    \A i \in 1..Len(vs.calls) :
        /\ vs.calls[i].authorization # <<>> =>
              (vs.calls[i].m = 1 /\ vs.calls[i].to = "api.github.com")
        /\ (vs.calls[i].m = 1 /\ Truthy(apiToken)) =>
              vs.calls[i].authorization = <<"token", apiToken>>

C27_Witness ==
    /\ apiToken = "secret"
    /\ \E d \in DocNames :
          /\ Len(vs.calls) = 1 + Methods(d)
          /\ \A i \in 2..Len(vs.calls) : vs.calls[i].m = i - 1
          /\ vs.calls[2].authorization = <<"token", "secret">>
          /\ vs.calls[Len(vs.calls)].to = "raw.githubusercontent.com"
          /\ vs.calls[Len(vs.calls)].authorization = <<>>

\* ---------------------------------------------------- the worker, specification
InitWorker ==
    Init /\ windowSeconds = 1 /\ degree = 1 /\ cacheTtl = 1 /\ apiToken = "secret"

NextWorker ==
    \/ \E method \in RouterMethods, path \in RouterPaths :
          rt.n < MaxWorkerReqs /\ fetch(method, path, "ip1", "")
    \/ fetchCheckRateLimit
    \/ \E s \in Slots, ok \in BOOLEAN : RLGet(s, ok)
    \/ \E s \in Slots, ok \in BOOLEAN : RLPut(s, ok)
    \/ route
    \/ \E bodyOk \in BOOLEAN, email \in {Undefined, "A@b.c"} :
          fetchHandleValidation(bodyOk, email, "tok", Undefined)
    \/ \E outcome \in TurnstileOutcomes : verifyTurnstile(outcome)
    \/ \E ok \in BOOLEAN : getCachedDocument(ok)
    \/ \E outcome \in UNION {Outcomes(d, m) : d \in DocNames, m \in 1..3} :
          fetchDocument(outcome)
    \/ \E ok \in BOOLEAN : cacheDocument(ok)
    \/ fetchReturn

SpecWorker == InitWorker /\ [][NextWorker]_vars

\* ------------------------------------------------------------ the worker, claims
Statuses == {200, 400, 403, 404, 405, 429, 500}

\* the request in hand is somewhere between coming in and being answered
Pending == rt.pc \in {"limit", "validate"}

\* what checkRateLimit returned for the request in hand
RateLimitResult == log[rt.client][rt.seen + 1]

\* C21: every request, under any combination of store, fetch, parse and
\* verification failures, ends with exactly one response, whose status is one
\* of 200, 400, 403, 404, 405, 429, 500; no failure path leaves the handler
\* without a response: a request not yet answered can always take its next step.
C21_AlwaysOneResponse ==
    /\ rt.pc = "done" => (rt.answered = rt.n /\ rt.resp.status \in Statuses)
    /\ Pending => (rt.answered = rt.n - 1 /\ ENABLED NextWorker)
    /\ vs.pc = "done" => vs.resp.status \in Statuses

C21_Witness ==
    /\ rt.pc = "done"
    /\ rt.n = 2
    /\ rt.resp = InternalError
    /\ vs.cause = "body"
    /\ faults = 1

\* the request in hand is not an OPTIONS request and checkRateLimit has
\* returned for it
Limited ==
    /\ rt.pc \in {"validate", "done"}
    /\ rt.method # "OPTIONS"
    /\ Len(log[rt.client]) > rt.seen

\* C22: when the rate limiter rejects a request the response is 429 and the
\* validator is never run for it: handleValidation is not called, so no
\* bot-verification call, no cache access and no document fetch is made.
C22_RejectedSkipsValidator ==
    (Limited /\ ~RateLimitResult.allowed) =>
        /\ rt.pc = "done"
        /\ rt.resp = TooManyRequests
        /\ vs.n = rt.vn
        /\ vs.pc \in {"idle", "done"}

\* RATE_LIMIT_MAX_REQUESTS = 1: the second call inside the window, after a
\* successful validation, gets 429
C22_Witness ==
    /\ maxRequests = 1
    /\ rt.n = 2
    /\ rt.pc = "done"
    /\ rt.method = "POST"
    /\ rt.path = "/api/validate"
    /\ rt.resp = TooManyRequests
    /\ vs.n = 1
    /\ vs.resp.success

\* C30: every non-OPTIONS request, whatever its path or method, passes
\* through the rate limiter once and, if admitted, has its timestamp stored
\* before any routing, so 429 takes precedence over 404 and 405; an OPTIONS
\* request is answered 200 without a call of the rate limiter.
C30_LimiterBeforeRouting ==
    /\ (rt.pc \in {"validate", "done"} /\ rt.method # "OPTIONS") =>
          /\ Len(log[rt.client]) = rt.seen + 1
          /\ ~RateLimitResult.allowed => rt.resp = TooManyRequests
          /\ (RateLimitResult.allowed /\ ~RateLimitResult.err) =>
                /\ StoredTimestamps(rt.client) # <<>>
                /\ StoredTimestamps(rt.client)[Len(StoredTimestamps(rt.client))]
                      = RateLimitResult.now
          /\ rt.resp \in {NotFound, MethodNotAllowed} => RateLimitResult.allowed
    /\ (rt.pc = "done" /\ rt.method = "OPTIONS") =>
          /\ rt.resp = Preflight
          /\ Len(log[rt.client]) = rt.seen
          /\ \A s \in Slots : hs[s].pc = "idle"

C30_Witness ==
    /\ rt.n = 2
    /\ rt.pc = "done"
    /\ rt.method = "GET"
    /\ rt.path = "/nope"
    /\ rt.resp = TooManyRequests
    /\ StoredTimestamps(rt.client) = <<RateLimitResult.now>>

\* ------------------------------------------ the changed document, specification
InitStale ==
    Init /\ maxRequests = 1 /\ windowSeconds = 1 /\ degree = 1 /\ cacheTtl = 1
         /\ apiToken = "secret"

\* what the strategy in hand is answered with: the allow-list is served by
\* Methods 1 and 2 and has no text file, the deny-list cannot be reached, the
\* redirect pool is served by Method 1
StaleOutcomes ==
    CASE vs.doc = "whitelist_set" /\ vs.m = 1 -> {Parsed(entries) : entries \in Served}
      [] vs.doc = "whitelist_set" /\ vs.m = 2 -> {Parsed(remote.list)}
      [] vs.doc = "redirect_urls" /\ vs.m = 1 -> {Parsed(<<"http://u/", "ftp://u/">>)}
      [] OTHER -> {NotOk}

NextStale ==
    \/ /\ vs.n < MaxRevalidations
       /\ handleValidation("POST", "", "", TRUE, "A@b.c", "tok", Undefined)
    \/ verifyTurnstile("success")
    \/ \E ok \in BOOLEAN : getCachedDocument(ok)
    \/ \E outcome \in StaleOutcomes : fetchDocument(outcome)
    \/ \E ok \in BOOLEAN : cacheDocument(ok)
    \/ ChangeDocument
    \/ Tick(MsPerSecond, MaxStaleTicks)

SpecStale == InitStale /\ [][NextStale]_vars

\* getWhitelistSet returns in this step, with a list it took from the cache
CachedDecision ==
    /\ vs.doc = "whitelist_set"
    /\ vs'.doc # "whitelist_set"
    /\ vs'.returned.cached

\* C25: after the allow-list in the repository has changed, a validation
\* decision made CACHE_TTL or more after the change reflects the new content:
\* a list served from the cache at that time was made from it.
C25_FreshWithinTtl ==
    [][(/\ CachedDecision
        /\ remote.changedAt > 0
        /\ clock >= remote.changedAt + cacheTtl * MsPerSecond)
          => vs'.returned.raw = remote.list]_vars

\* ------------------------------------------- the rate limiter, what remains
\* slot s's call returns in this step
Returns(s) == hs[s].pc # "idle" /\ hs'[s].pc = "idle"

\* what the call of client c that returned last returned
LastReturned(c) == log'[c][Len(log'[c])]

\* C36: when the store answers, the remaining value returned on admission is
\* maxRequests minus the number of in-window timestamps, the current one
\* counted, so it lies in 0..maxRequests-1 and is never negative; on
\* rejection it is 0.
C36_Remaining ==
    [][\A s \in Slots : (Returns(s) /\ ~LastReturned(hs[s].client).err) =>
          LET result == LastReturned(hs[s].client)
              inWindow == InWindow(hs[s].read, hs[s].now - windowSeconds)
          IN  IF result.allowed
              THEN /\ result.remaining = maxRequests - (Len(inWindow) + 1)
                   /\ result.remaining \in 0..(maxRequests - 1)
              ELSE result.remaining = 0
      ]_vars

C36_Witness ==
    /\ maxRequests = 2
    /\ faults = 0
    /\ \E c \in Clients : \E i, j, k \in 1..Len(log[c]) :
          /\ log[c][i].allowed /\ log[c][i].remaining = 1
          /\ log[c][j].allowed /\ log[c][j].remaining = 0
          /\ ~log[c][k].allowed /\ log[c][k].remaining = 0

\* ------------------------------------------------ cached documents, more claims
\* the document function in hand returns in this step
DocumentReturns == vs.doc # "" /\ vs'.doc # vs.doc

\* C31: a cache entry is written only after a fetch produced a non-empty
\* list: no cache entry ever holds an empty list, a fetch that yields nothing
\* returns without a write to the cache, and a request that finds no entry
\* for a document attempts its first remote strategy.
C31_NoEmptyCached ==
    [][/\ \A d \in DocNames :
             kv'[CacheKey(d)].present => Len(ParseCache(kv'[CacheKey(d)].text).data) > 0
       /\ (DocumentReturns /\ ~vs'.returned.cached /\ vs'.returned.list = <<>>) =>
             (vs.pc = "fetch" /\ kv' = kv)
       /\ (vs.pc = "cache" /\ vs'.pc # "cache" /\ ~kv[CacheKey(vs.doc)].present) =>
             (vs'.pc = "fetch" /\ vs'.calls[Len(vs'.calls)] = FetchCall(vs.doc, 1))
      ]_vars

\* the second request fetches the deny-list again: the first one got past it
\* (it cached the allow-list) and left no entry for it
C31_Witness ==
    /\ vs.n = 2
    /\ vs.doc = "blacklist"
    /\ vs.pc = "fetch"
    /\ ~kv[CacheKey("blacklist")].present
    /\ kv[CacheKey("whitelist_set")].present
    /\ Len(ParseCache(kv[CacheKey("whitelist_set")].text).data) > 0

\* the cache has answered the document function in hand
CacheStep == vs.pc = "cache" /\ vs' # vs

\* the function returns the cached list and attempts no strategy
UsesCache ==
    /\ DocumentReturns
    /\ vs'.returned.doc = vs.doc
    /\ vs'.returned.cached
    /\ vs'.returned.list = ParseCache(kv[CacheKey(vs.doc)].text).data

\* the function goes on to its first strategy
TriesStrategies == vs'.pc = "fetch" /\ vs'.doc = vs.doc /\ vs'.m = 1

\* the entry setCachedData writes for the list in hand
WrittenEntry ==
    SetCachedTry(vs.doc, vs.list, vs.timestamp, TRUE).kv[CacheKey(vs.doc)]

\* C32: when a logically fresh cache entry exists for a document and the
\* store answers, the request uses it and attempts no strategy for that
\* document; strategies are attempted only on a miss, and a non-empty result
\* goes to the cache under the document's name before the function returns.
C32_CacheFirst ==
    [][/\ CacheStep =>
             IF /\ GetCachedTry(vs.doc, TRUE).found
                /\ ~(TriesStrategies /\ vs'.calls[1].outcome = "throw")
             THEN UsesCache
             ELSE TriesStrategies
       /\ (vs.pc = "fetch" /\ DocumentReturns) => vs'.returned.list = <<>>
       /\ (vs.pc = "fetch" /\ vs'.pc = "put") =>
             /\ vs'.list # <<>>
             /\ vs'.calls[Len(vs'.calls)] = KvCall("put", vs.doc)
       /\ (vs.pc = "put" /\ vs' # vs) =>
             /\ DocumentReturns
             /\ vs'.returned.list = vs.list
             /\ kv' \in {kv, [kv EXCEPT ![CacheKey(vs.doc)] = WrittenEntry]}
      ]_vars

C32_Witness ==
    /\ vs.n = 2
    /\ vs.returned.doc = "whitelist_set"
    /\ vs.returned.cached
    /\ vs.returned.list = ParseCache(kv[CacheKey("whitelist_set")].text).data
    /\ vs.returned.list # <<>>
    /\ vs.doc = "redirect_urls"
    /\ vs.pc = "put"

\* ------------------------------------------- validation, unobtainable documents
\* C33: when the deny-list cannot be obtained (cache miss and every strategy
\* failed) no client is rejected by the deny-list check and validation goes
\* on to the allow-list; when the allow-list cannot be obtained every email
\* is rejected with 403; neither case is answered with a 500.
C33_UnobtainableDocuments ==
    /\ (vs.returned.doc = "blacklist" /\ vs.returned.failed) =>
          /\ vs.pc # "done"
          /\ vs.doc = "whitelist_set"
          /\ vs.stages = SubSeq(StageOrder, 1, 3)
          /\ vs.resp = NoResponse
    /\ (vs.returned.doc = "whitelist_set" /\ vs.returned.failed) =>
          /\ vs.pc = "done"
          /\ vs.resp.status = 403
          /\ ~vs.resp.success
          /\ vs.stages = SubSeq(StageOrder, 1, 3)

C33_Witness ==
    /\ vs.returned.doc = "blacklist"
    /\ vs.returned.failed
    /\ ~vs.returned.cached
    /\ vs.clientIP = "ip1"
    /\ vs.doc = "whitelist_set"
    /\ vs.pc = "fetch"

\* ---------------------------------------- clients side by side, specification
\* two clients' calls, one at a time per client, interleaved with each other
\* and with writes of the cache layer
InitIsolation ==
    Init /\ degree = 1 /\ cacheTtl = 1 /\ apiToken = "secret"

NextIsolation ==
    \/ \E s \in Slots, cf \in CfHeaders :
          Started < MaxReqs /\ RLStart(s, cf, "")
    \/ \E s \in Slots, ok \in BOOLEAN : RLGet(s, ok)
    \/ \E s \in Slots, ok \in BOOLEAN : RLPut(s, ok)
    \/ /\ ~lastPut["blacklist"].done
       /\ setCachedData("blacklist", <<"ip1">>, TRUE)
    \/ Tick(MsPerSecond, MaxRateTicks)

SpecIsolation == InitIsolation /\ [][NextIsolation]_vars

\* the admitted calls of client c, as its history stands after the step, that
\* came before its i-th call and whose timestamp lies in the i-th call's window
OwnAdmittedBefore(c, i) ==
    {j \in 1..(i - 1) : /\ log'[c][j].allowed
                        /\ log'[c][j].now > log'[c][i].now - windowSeconds}

\* C34: the admission decision for a client key depends only on that
\* client's own earlier requests and the clock: a client's record is
\* written by that client's own admitted calls only and holds only their
\* timestamps, whatever other clients and the cache layer do, and when the
\* store answers a call is admitted exactly when fewer than maxRequests of
\* the client's own earlier admitted calls lie in its window.
C34_Isolation ==
    [][\A c \in Clients :
          /\ kv'[RateKey(c)] # kv[RateKey(c)] =>
                \E s \in Slots : hs[s].client = c /\ hs[s].pc = "put" /\ Returns(s)
          /\ kv'[RateKey(c)].present =>
                \A i \in 1..Len(ParseRate(kv'[RateKey(c)].text)) :
                    \E j \in 1..Len(log'[c]) :
                        /\ log'[c][j].allowed
                        /\ log'[c][j].now = ParseRate(kv'[RateKey(c)].text)[i]
          /\ faults' = 0 =>
                \A i \in 1..Len(log'[c]) :
                    log'[c][i].allowed <=>
                        Cardinality(OwnAdmittedBefore(c, i)) < maxRequests
      ]_vars

\* a client is rejected on its own history while the other client, whose
\* call came in between, is admitted, and the cache has been written
C34_Witness ==
    /\ faults = 0
    /\ lastPut["blacklist"].done
    /\ Len(log["ip1"]) = 2
    /\ log["ip1"][1].allowed
    /\ ~log["ip1"][2].allowed
    /\ Len(log["unknown"]) = 1
    /\ log["unknown"][1].allowed
    /\ kv[RateKey("ip1")].present
    /\ kv[RateKey("unknown")].present

\* ------------------------------------- records that expire, specification
\* the rate limiter with quiet periods long enough for the store to drop a
\* record; a handler is never in flight across a quiet period
InitExpiry == Init /\ cacheTtl = 1 /\ apiToken = "secret"

NextExpiry ==
    \/ \E s \in Slots, cf \in CfHeaders :
          Started < MaxReqs /\ RLStart(s, cf, "")
    \/ \E s \in Slots, ok \in BOOLEAN : RLGet(s, ok)
    \/ \E s \in Slots, ok \in BOOLEAN : RLPut(s, ok)
    \/ Tick(MsPerSecond, MaxRateTicks)
    \/ Idle

SpecExpiry == InitExpiry /\ [][NextExpiry]_vars

\* what KV.get hands the handler in slot s: nothing once the record expired
ReadExpiring(s) ==
    IF KvLive(RateKey(hs[s].client))
    THEN ParseRate(kv[RateKey(hs[s].client)].text) ELSE <<>>

\* what a store whose records never expire would hand it
ReadForever(s) ==
    IF kv[RateKey(hs[s].client)].present
    THEN ParseRate(kv[RateKey(hs[s].client)].text) ELSE <<>>

\* C35: store-level expiry of a rate record never changes an admission
\* decision: whenever a handler is about to read its client's record, the
\* timestamps it would count from the expiring store are those it would count
\* from a store whose records never expire, so the limit test and the record
\* written back are the same; every timestamp of an expired record is already
\* outside the window.
C35_ExpiryNeverDecides ==
    \A s \in Slots :
        hs[s].pc = "get" =>
            /\ InWindow(ReadExpiring(s), hs[s].now - windowSeconds)
                 = InWindow(ReadForever(s), hs[s].now - windowSeconds)
            /\ OverLimit(InWindow(ReadExpiring(s), hs[s].now - windowSeconds))
                 <=> OverLimit(InWindow(ReadForever(s), hs[s].now - windowSeconds))

\* a handler is about to read a record that the store has dropped
C35_Witness ==
    \E s \in Slots :
        /\ hs[s].pc = "get"
        /\ kv[RateKey(hs[s].client)].present
        /\ ~KvLive(RateKey(hs[s].client))
        /\ Len(ReadForever(s)) > 0

====
